---- MODULE Spec2Model ----
(***************************************************************************)
(* A model of the Sengled cloud API client (api/api.py) and of the config  *)
(* flow that verifies credentials with it (config_flow.py).                *)
(*                                                                         *)
(* The client is an asyncio program: a task runs without interruption      *)
(* between two awaits that really suspend.  Each action below is one such  *)
(* segment of one task: an awaited operation ends with its outcome and the *)
(* task runs on until it has started the next one and suspends in it.      *)
(* asyncio.Lock.acquire does not suspend when the lock is free, and no     *)
(* task awaits while holding _lights_mutex, so a section under the lock    *)
(* belongs to the segment that contains it.                                *)
(*                                                                         *)
(* What the HTTP and MQTT peers answer is the environment's choice, drawn  *)
(* with \E from small sets.                                                *)
(***************************************************************************)
EXTENDS Integers, Sequences, FiniteSets, TLC

\* ------------------------------------------------------------- bounds
NumDevices == 2      \* devices the cloud account can list
NumTokens == 2       \* distinct session tokens the login server hands out
MaxSubmits == 3      \* times the user submits the credentials form
MaxBatch == 2        \* entries in the list of one status message
MaxCommands == 2     \* commands the lights are given

\* -------------------------------------------------- program constants
HTTP_OK == 200           \* HTTPStatus.OK
MaxAttempts == 3         \* range(3)
LastAttempt == 2         \* attempt < 2
BackoffBase == 2         \* 2 ** attempt
ReconnectDelay == 10     \* asyncio.sleep(10)
MinMireds == 154         \* ElementsColorBulb.min_mireds
MaxMireds == 400         \* ElementsColorBulb.max_mireds

None == 0
Devices == 1..NumDevices
Tokens == 1..NumTokens
\* The addresses getServerInfo.json announces are opaque to the client, which
\* only parses and stores them: one value stands for the pair.
Urls == {"wss://inception"}
NoUrl == "None"

Statuses == {HTTP_OK, 401, 500}
Rets == {0, 1, 2}

\* A transport fault of an aiohttp call.  A refused or reset connection and a
\* connect timeout are aiohttp.ClientError; the expiry of ClientTimeout(total=10)
\* while the response is awaited is asyncio.TimeoutError, which is not.
TransportFaults == {"ClientError", "TimeoutError"}

\* What one POST to the login endpoint comes back with: a transport fault, or
\* a response with its HTTP status and the "ret" and "jsessionId" body fields.
LoginResponses ==
    [fault : {"none"}, status : Statuses, ret : Rets, jsessionId : Tokens]
    \cup [fault : TransportFaults, status : {0}, ret : {0}, jsessionId : {None}]

\* What the two other POSTs come back with; data is the decoded body: an
\* address, or the device list of the account, which holds every device.
InfoResponses ==
    [fault : {"none"}, status : Statuses, data : Urls]
    \cup [fault : TransportFaults, status : {0}, data : {NoUrl}]

DiscoveryResponses ==
    [fault : {"none"}, status : Statuses, data : {Devices}]
    \cup [fault : TransportFaults, status : {0}, data : {{}}]

\* ---------------------------------------------------- status messages
\* The keys of a light's _data the model follows, and their values.
Keys == {"switch", "brightness"}
Values == {"0", "1"}
Absent == "absent"
Missing == "missing"

\* _data of a light as built from its discovery record.
Discovered == [k \in Keys |-> IF k = "switch" THEN "0" ELSE Absent]

\* An entry of the list of a status message: an object with its "type" and
\* "value" members, either of which can be missing; an entry that is falsy
\* ({} or null); or a number or string.
Entries ==
    [shape : {"object"}, type : {"switch"}, value : Values]
    \cup [shape : {"object"}, type : {"brightness"}, value : {"1"}]
    \cup [shape : {"object"}, type : {"switch"}, value : {Missing}]
    \cup [shape : {"object"}, type : {Missing}, value : {"1"}]
    \cup [shape : {"falsy", "scalar"}, type : {Missing}, value : {Missing}]

Batches == UNION {[1..n -> Entries] : n \in 0..MaxBatch}

\* The payload of a message: bytes that are not UTF-8, text that is not JSON,
\* a JSON value that is not a list, or a JSON list.
Bodies ==
    [kind : {"not_utf8", "not_json", "not_list"}, items : {<<>>}]
    \cup [kind : {"list"}, items : Batches]

\* A message by the topic it came on: wifielement/<dev>/status,
\* wifielement/<dev>/update, or any other topic.
Messages ==
    [at : {"queued"}, topic : {"status"}, dev : Devices, body : Bodies]
    \cup [at : {"queued"}, topic : {"update", "other"}, dev : Devices,
          body : {[kind |-> "list", items |-> <<>>]}]

NoMessage ==
    [at |-> "none", topic |-> "other", dev |-> 1,
     body |-> [kind |-> "list", items |-> <<>>]]

\* No colour temperature set yet.
NoColorTemp == [pc |-> "idle", mireds |-> 0, value |-> <<>>, color_temp |-> 0]

VARIABLES
    \* the API object
    jsession_id,      \* _jsession_id: None or the token of the last good login
    inception_url,    \* _inception_url: None or the broker address
    jbalancer_url,    \* _jbalancer_url
    lights,           \* _lights, as the sequence of its keys in insertion order
    mqtt,             \* _mqtt: "None" or "Client", the client last connected
    http_closed,      \* whether _http has been closed
    \* the MQTT connections
    mqtt_live,        \* the connection of the client _mqtt holds is up
    orphan_live,      \* the connection of a client _mqtt held before is up
    subs,             \* subs[d]: subscribe calls for wifielement/d/status
                      \* acknowledged on the client _mqtt holds now
    \* the task running async_start
    pc,               \* the operation it is suspended in, or "raised"
    exc,              \* the exception that left async_start, or "none"
    attempt,          \* the loop variable of _async_setup_mqtt
    pending,          \* lights of the snapshot still to subscribe
    \* the tasks running async_setup_platform, one per listed device
    reg,              \* where each is: "unknown", "scheduled", "subscribing"
                      \* (its subscribe is awaited on the client _mqtt holds),
                      \* "subscribing_old" (on a client _mqtt held before),
                      \* "done_no_client" (returned, no client to subscribe
                      \* on), "done" (returned, subscribed) or "failed"
    \* the task running shutdown
    shutdown_pc,      \* "idle", "disconnecting" (suspended in disconnect) or "done"
    channel_closed,   \* shutdown() disconnected a connection that was up
    \* what has happened (read by the properties only)
    loop_entered,     \* the while True loop of async_start has been entered
    phase_opens,      \* connects started in this call of _async_setup_mqtt
    phase_sleeps,     \* delays slept in this call of _async_setup_mqtt
    last_open,        \* outcome of the last connect that ended in this call
    open_token,       \* the token the last client of this call was built with
    snapshot,         \* the lights read under the lock at the last connect
    escaped,          \* class of the fault async_start caught last, "none"
                      \* once the message loop runs again
    opened,           \* a connect was started since that fault
    relogin_token,    \* jsessionId of the login answered since that fault
    fixed_wait,       \* delay slept in the handler since that fault
    token_at_escape,  \* _jsession_id when the fault was caught
    url_at_escape,    \* _inception_url when the fault was caught
    \* the config flow and the API object check_auth builds for it
    flow,             \* submits, last response, what login raised, token, result
    \* the light objects
    data,             \* data[d]: _data of the light of device d, by key
    msg,              \* the MQTT message the message loop was given last
    warnings,         \* warning and error records logged while handling it
    ct,               \* a colour temperature set and read back
    \* the task running a command of a light (_async_send_updates)
    cmd_pc,           \* "idle" or "publishing" (suspended in publish)
    calls,            \* calls of _async_send_updates so far
    publishes,        \* calls of client.publish so far
    cmd_last,         \* what the publish of the last call ended with
    cmd_exc,          \* the exception that left the last call, or "none"
    \* the registry lock
    lights_mutex,     \* _lights_mutex: "free", or the section that holds it
                      \* while its task is suspended
    unlocked          \* _lights was read or written outside the lock

apiVars == <<jsession_id, inception_url, jbalancer_url, lights, mqtt, http_closed>>
chanVars == <<mqtt_live, orphan_live, subs>>
taskVars == <<pc, exc, attempt, pending>>
phaseVars == <<phase_opens, phase_sleeps, last_open, open_token>>
escapeVars == <<escaped, relogin_token, fixed_wait, token_at_escape, url_at_escape>>
histVars == <<loop_entered, snapshot, opened, phaseVars, escapeVars>>
downVars == <<shutdown_pc, channel_closed>>
statusVars == <<data, msg, warnings>>
cmdVars == <<cmd_pc, calls, publishes, cmd_last, cmd_exc>>
lockVars == <<lights_mutex, unlocked>>
sideVars == <<statusVars, ct, cmdVars, lockVars>>
vars == <<apiVars, chanVars, taskVars, reg, downVars, histVars, flow, sideVars>>

\* ------------------------------------------------------------ _async_login
\* The exception _async_login ends with ("none" when it returns) and the value
\* of _jsession_id after it, given the answer to its POST, whether the HTTP
\* session was closed under the POST (the connection is cut, a ClientError),
\* and _jsession_id before.
async_login_ret_unchecked(resp, closed, tok) ==
    IF closed \/ resp.fault = "ClientError"
    THEN [raised |-> "AuthError", jsession_id |-> tok]
    ELSE IF resp.fault # "none"
    THEN [raised |-> resp.fault, jsession_id |-> tok]
    ELSE IF resp.status # HTTP_OK
    THEN [raised |-> "AuthError", jsession_id |-> tok]
    ELSE [raised |-> "none", jsession_id |-> resp.jsessionId]

async_login(resp, closed, tok) ==
    IF closed \/ resp.fault = "ClientError"
    THEN [raised |-> "AuthError", jsession_id |-> tok]
    ELSE IF resp.fault # "none"
    THEN [raised |-> resp.fault, jsession_id |-> tok]
    ELSE IF resp.status # HTTP_OK
    THEN [raised |-> "AuthError", jsession_id |-> tok]
    ELSE IF resp.ret # 0
    THEN [raised |-> "AuthError", jsession_id |-> tok]
    ELSE [raised |-> "none", jsession_id |-> resp.jsessionId]

\* --------------------------------------------------------- the config flow
\* errors["base"] after the try of async_step_user, "" when no error is set.
step_user_error(raised) ==
    IF raised = "none" THEN ""
    ELSE IF raised = "AuthError" THEN "login_failed"
    ELSE "unknown_error"

\* No form submitted yet.
NoResponse == [fault |-> "unsent", status |-> 0, ret |-> 0, jsessionId |-> None]

FlowInit ==
    [submits |-> 0, resp |-> NoResponse, raised |-> "none", token |-> None,
     result |-> "form"]

\* async_step_user with user_input: check_auth builds a new API object (its
\* _jsession_id None, its session open) and logs in with it.
async_step_user(resp) ==
    /\ flow.result # "entry"
    /\ flow.submits < MaxSubmits
    /\ LET out == async_login(resp, FALSE, None)
           err == step_user_error(out.raised)
       IN flow' = [submits |-> flow.submits + 1,
                   resp |-> resp,
                   raised |-> out.raised,
                   token |-> out.jsession_id,
                   result |-> IF err = "" THEN "entry" ELSE err]
    /\ UNCHANGED <<apiVars, chanVars, taskVars, reg, downVars, histVars, sideVars>>

\* async_step_user without user_input: the form is shown again, no error set.
async_step_user_form ==
    /\ flow.result \notin {"entry", "form"}
    /\ flow' = [flow EXCEPT !.result = "form"]
    /\ UNCHANGED <<apiVars, chanVars, taskVars, reg, downVars, histVars, sideVars>>

\* ------------------------------------------------------------------- Init
\* The API object as constructed, async_start suspended in its first login.
Init ==
    /\ jsession_id = None
    /\ inception_url = NoUrl
    /\ jbalancer_url = NoUrl
    /\ lights = <<>>
    /\ mqtt = "None"
    /\ http_closed = FALSE
    /\ mqtt_live = FALSE
    /\ orphan_live = FALSE
    /\ subs = [d \in Devices |-> 0]
    /\ pc = "login"
    /\ exc = "none"
    /\ attempt = 0
    /\ pending = <<>>
    /\ reg = [d \in Devices |-> "unknown"]
    /\ shutdown_pc = "idle"
    /\ channel_closed = FALSE
    /\ loop_entered = FALSE
    /\ phase_opens = 0
    /\ phase_sleeps = <<>>
    /\ last_open = "none"
    /\ open_token = None
    /\ snapshot = <<>>
    /\ escaped = "none"
    /\ opened = FALSE
    /\ relogin_token = None
    /\ fixed_wait = 0
    /\ token_at_escape = None
    /\ url_at_escape = NoUrl
    /\ flow = FlowInit
    /\ data = [d \in Devices |-> Discovered]
    /\ msg = NoMessage
    /\ warnings = 0
    /\ ct = NoColorTemp
    /\ cmd_pc = "idle"
    /\ calls = 0
    /\ publishes = 0
    /\ cmd_last = "none"
    /\ cmd_exc = "none"
    /\ lights_mutex = "free"
    /\ unlocked = FALSE

\* ------------------------------------------------- async_start: its pieces
\* async with self._lights_mutex: the section named site holds the lock from
\* its entry to its exit, and the exit comes before the next await of the
\* task.  A section is entered when the lock is free.
mutex_enter(site) == site

mutex_exit_after_await(holder) == holder

mutex_exit(holder) == "free"

LockedAccess(site) ==
    /\ lights_mutex = "free"
    /\ LET holder == mutex_enter(site)
       IN /\ unlocked' = (unlocked \/ holder # site)
          /\ lights_mutex' = mutex_exit(holder)

\* An exception leaves async_start: the task is over.
Raise(e) ==
    /\ pc' = "raised"
    /\ exc' = e

\* async_start starts the operation p and suspends in it.
Await(p) ==
    /\ pc' = p
    /\ exc' = exc

\* async_start starts the POST p: on a session that is closed already post()
\* raises RuntimeError, which no except clause names.
Post(p) == IF http_closed THEN Raise("RuntimeError") ELSE Await(p)

\* The except clause of async_start that catches a fault of class f, as the
\* operation it awaits.  MqttConnectError is a subclass of MqttError and its
\* clause comes first.
handler_never_relogin(f) == "sleep"

handler_always_relogin(f) == "relogin"

handler(f) == IF f = "MqttConnectError" THEN "relogin" ELSE "sleep"

\* A fault of class f leaves the try of async_start and its handler starts
\* the login or the sleep.  What the call of _async_setup_mqtt did stays on
\* record.
Escape(f) ==
    /\ IF handler(f) = "relogin" THEN Post("relogin") ELSE Await("sleep")
    /\ escaped' = f
    /\ opened' = FALSE
    /\ relogin_token' = None
    /\ fixed_wait' = 0
    /\ token_at_escape' = jsession_id
    /\ url_at_escape' = inception_url
    /\ pending' = <<>>
    /\ snapshot' = <<>>
    /\ UNCHANGED <<attempt, phase_opens, phase_sleeps, open_token>>

\* One turn of the for loop of _async_setup_mqtt, attempt being a, up to the
\* await of connect: the client is built from _inception_url, which may be
\* None still (AttributeError, which no except clause names), and from
\* _jsession_id, which is tok.
StartAttempt(a, opens, sleeps, tok) ==
    /\ attempt' = a
    /\ phase_sleeps' = sleeps
    /\ IF inception_url = NoUrl
       THEN /\ Raise("AttributeError")
            /\ phase_opens' = opens
            /\ open_token' = None
            /\ opened' = opened
       ELSE /\ Await("connect")
            /\ phase_opens' = opens + 1
            /\ open_token' = tok
            /\ opened' = TRUE

\* async_start calls _async_setup_mqtt.
StartSetup(tok) ==
    /\ StartAttempt(0, 0, <<>>, tok)
    /\ last_open' = "none"

\* _async_setup_mqtt returns and async_start suspends in _message_loop: the
\* fault caught last is recovered from.
LoopReached ==
    /\ Await("messages")
    /\ attempt' = 0
    /\ phase_opens' = 0
    /\ phase_sleeps' = <<>>
    /\ last_open' = "none"
    /\ open_token' = None
    /\ opened' = FALSE
    /\ escaped' = "none"
    /\ relogin_token' = None
    /\ fixed_wait' = 0
    /\ token_at_escape' = None
    /\ url_at_escape' = NoUrl

\* ---------------------------------------------- async_start, before the loop
\* await self._async_login() returns or raises; then the server info POST.
async_start_login(resp) ==
    /\ pc = "login"
    /\ LET out == async_login(resp, http_closed, jsession_id)
       IN /\ jsession_id' = out.jsession_id
          /\ IF out.raised = "none" THEN Post("server_info") ELSE Raise(out.raised)
    /\ UNCHANGED <<inception_url, jbalancer_url, lights, mqtt, http_closed,
                   chanVars, attempt, pending, reg, downVars, histVars, flow, sideVars>>

\* The exception a best-effort POST (server info, device list) ends with:
\* a non-200 answer and a ClientError are logged and swallowed.
best_effort_raised(resp, closed) ==
    IF closed \/ resp.fault \in {"none", "ClientError"} THEN "none" ELSE resp.fault

\* Whether the body of the answer is read and used.
best_effort_ok(resp, closed) ==
    ~closed /\ resp.fault = "none" /\ resp.status = HTTP_OK

\* await self._async_get_server_info() returns or raises; then the device
\* list POST.
async_get_server_info(resp) ==
    /\ pc = "server_info"
    /\ IF best_effort_ok(resp, http_closed)
       THEN inception_url' = resp.data /\ jbalancer_url' = resp.data
       ELSE UNCHANGED <<inception_url, jbalancer_url>>
    /\ IF best_effort_raised(resp, http_closed) = "none"
       THEN Post("discover")
       ELSE Raise(best_effort_raised(resp, http_closed))
    /\ UNCHANGED <<jsession_id, lights, mqtt, http_closed, chanVars, attempt,
                   pending, reg, downVars, histVars, flow, sideVars>>

\* await self._async_discover_lights() returns or raises: load_platform has
\* scheduled one async_setup_platform per listed device; then the loop is
\* entered and _async_setup_mqtt called.
async_discover_lights(resp) ==
    /\ pc = "discover"
    /\ reg' = IF best_effort_ok(resp, http_closed)
              THEN [d \in Devices |-> IF d \in resp.data THEN "scheduled" ELSE reg[d]]
              ELSE reg
    /\ IF best_effort_raised(resp, http_closed) = "none"
       THEN /\ loop_entered' = TRUE
            /\ StartSetup(jsession_id)
       ELSE /\ Raise(best_effort_raised(resp, http_closed))
            /\ UNCHANGED <<attempt, loop_entered, opened, phaseVars>>
    /\ UNCHANGED <<apiVars, chanVars, pending, downVars, snapshot,
                   escapeVars, flow, sideVars>>

\* -------------------------------------------------------- _async_setup_mqtt
\* What client.connect() can end with.
ConnectOutcomes == {"ok", "MqttConnectError", "MqttError"}

\* tuple(self._lights.values()) under the lock.
lights_snapshot_none(ls) == <<>>

lights_snapshot_without_last(ls) == SubSeq(ls, 1, Len(ls) - 1)

lights_snapshot_first_only(ls) == IF ls = <<>> THEN <<>> ELSE <<Head(ls)>>

lights_snapshot(ls) == ls

\* if attempt < 2: sleep and go round again; else: raise.
retry_after_third_too(a) == a <= LastAttempt

retry_after(a) == a < LastAttempt

\* asyncio.sleep(2 ** attempt)
backoff_delay_product(a) == BackoffBase * a

backoff_delay(a) == BackoffBase ^ a

\* except mqtt.error.MqttConnectError in the for loop of _async_setup_mqtt:
\* the only class of fault the loop catches.
setup_catches_any(f) == TRUE

setup_catches(f) == f = "MqttConnectError"

\* A registration whose subscribe is in flight stays with the client it was
\* issued on when _mqtt is given a new client.
LeftBehind(r) == IF r = "subscribing" THEN "subscribing_old" ELSE r

\* So does a command whose publish is in flight.
PublishLeftBehind(c) == IF c = "publishing" THEN "publishing_old" ELSE c

\* await client.connect() returns or raises.  On success the client is stored
\* (the one _mqtt held before is not disconnected), the snapshot is taken and
\* the first subscribe started; with no light registered _async_setup_mqtt
\* returns.  A refusal is followed by the sleep or raised; any other fault
\* leaves _async_setup_mqtt at once.
async_setup_mqtt_connect(outcome) ==
    /\ pc = "connect"
    /\ IF outcome = "ok"
       THEN /\ mqtt' = "Client"
            /\ mqtt_live' = TRUE
            /\ orphan_live' = (orphan_live \/ mqtt_live)
            /\ subs' = [d \in Devices |-> 0]
            /\ reg' = [d \in Devices |-> LeftBehind(reg[d])]
            /\ cmd_pc' = PublishLeftBehind(cmd_pc)
            /\ LockedAccess("snapshot")
            /\ pending' = lights_snapshot(lights)
            /\ snapshot' = lights
            /\ IF lights_snapshot(lights) = <<>>
               THEN LoopReached
               ELSE /\ Await("subscribe")
                    /\ last_open' = outcome
                    /\ UNCHANGED <<attempt, phase_opens, phase_sleeps, open_token,
                                   opened, escapeVars>>
       ELSE /\ last_open' = outcome
            /\ UNCHANGED <<mqtt, chanVars, reg, cmd_pc, lockVars>>
            /\ IF setup_catches(outcome) /\ retry_after(attempt)
               THEN /\ Await("backoff")
                    /\ UNCHANGED <<pending, snapshot, attempt, phase_opens,
                                   phase_sleeps, open_token, opened, escapeVars>>
               ELSE Escape(outcome)
    /\ UNCHANGED <<jsession_id, inception_url, jbalancer_url, lights, http_closed,
                   downVars, loop_entered, flow, statusVars, ct, calls,
                   publishes, cmd_last, cmd_exc>>

\* await asyncio.sleep(2 ** attempt) returns; the for loop takes its next
\* value, or is exhausted: _async_setup_mqtt returns and _message_loop reads
\* self._mqtt.
async_setup_mqtt_backoff ==
    /\ pc = "backoff"
    /\ IF attempt + 1 < MaxAttempts
       THEN /\ StartAttempt(attempt + 1, phase_opens,
                            Append(phase_sleeps, backoff_delay(attempt)),
                            jsession_id)
            /\ UNCHANGED <<last_open, escapeVars>>
       ELSE IF mqtt = "None"
       THEN /\ Raise("AttributeError")
            /\ UNCHANGED <<attempt, opened, phaseVars, escapeVars>>
       ELSE LoopReached
    /\ UNCHANGED <<apiVars, chanVars, pending, reg, downVars, loop_entered,
                   snapshot, flow, sideVars>>

\* What client.subscribe() can end with: on a connection that is up it is
\* acknowledged or times out, on one that is down it fails.
SubscribeOutcomes(up) == IF up THEN {"ok", "MqttError"} ELSE {"MqttError"}

\* subs after a subscribe for the topic of d is acknowledged on the client
\* _mqtt holds.
Subscribed_not_issued(d) == subs

Subscribed(d) == [subs EXCEPT ![d] = @ + 1]

\* for light in lights: await self._subscribe_light(light) returns or raises,
\* one light a step (a light has one topic); after the last, break, and
\* async_start enters _message_loop without suspending in between.
async_setup_mqtt_subscribe(outcome) ==
    /\ pc = "subscribe"
    /\ outcome \in SubscribeOutcomes(mqtt_live)
    /\ IF outcome = "ok"
       THEN /\ subs' = Subscribed(Head(pending))
            /\ pending' = Tail(pending)
            /\ snapshot' = snapshot
            /\ IF Tail(pending) = <<>>
               THEN LoopReached
               ELSE /\ Await("subscribe")
                    /\ UNCHANGED <<attempt, opened, phaseVars, escapeVars>>
       ELSE /\ Escape(outcome)
            /\ UNCHANGED <<subs, last_open>>
    /\ UNCHANGED <<apiVars, mqtt_live, orphan_live, reg, downVars,
                   loop_entered, flow, sideVars>>

\* ------------------------------------------------------------ _message_loop
\* async for message in messages: the connection is down and the iterator
\* raises MqttError.
message_loop_fault ==
    /\ pc = "messages"
    /\ ~mqtt_live
    /\ Escape("MqttError")
    /\ UNCHANGED <<apiVars, chanVars, reg, downVars, loop_entered,
                   last_open, flow, sideVars>>

\* --------------------------------------------- async_start, the two handlers
\* except MqttConnectError: await self._async_login() returns or raises; the
\* loop goes round and calls _async_setup_mqtt.
async_start_relogin(resp) ==
    /\ pc = "relogin"
    /\ LET out == async_login(resp, http_closed, jsession_id)
       IN /\ jsession_id' = out.jsession_id
          /\ IF out.raised = "none"
             THEN /\ relogin_token' = resp.jsessionId
                  /\ StartSetup(out.jsession_id)
             ELSE /\ Raise(out.raised)
                  /\ UNCHANGED <<relogin_token, attempt, opened, phaseVars>>
    /\ UNCHANGED <<inception_url, jbalancer_url, lights, mqtt, http_closed,
                   chanVars, pending, reg, downVars, loop_entered, snapshot,
                   escaped, fixed_wait, token_at_escape, url_at_escape, flow, sideVars>>

\* except MqttError: await asyncio.sleep(10) returns; the loop goes round and
\* calls _async_setup_mqtt.
async_start_sleep ==
    /\ pc = "sleep"
    /\ fixed_wait' = ReconnectDelay
    /\ StartSetup(jsession_id)
    /\ UNCHANGED <<apiVars, chanVars, pending, reg, downVars, loop_entered,
                   snapshot, escaped, relogin_token, token_at_escape,
                   url_at_escape, flow, sideVars>>

\* ------------------------------------------------------ async_register_light
\* self._lights[light.unique_id] = light: a new key goes last, a key that is
\* present keeps its place.
registered_alone(ls, d) == <<d>>

registered_not_yet(ls, d) == ls

registered(ls, d) ==
    IF \E i \in 1..Len(ls) : ls[i] = d THEN ls ELSE Append(ls, d)

\* _subscribe_light up to its first await: with no client it returns; on a
\* client whose connection is up the subscribe is awaited; a client whose
\* connection is down refuses the subscribe at once with MqttError if it has
\* seen the connection go, and sends and awaits it if it has not.
subscribe_light(client, up) ==
    IF client = "None" THEN {"done_no_client"}
    ELSE IF up THEN {"subscribing"}
    ELSE {"subscribing", "failed"}

\* async_setup_platform calls async_register_light: the light is written under
\* the lock, then _subscribe_light issues the subscribe on the client _mqtt
\* holds now; if it holds none, async_register_light returns at once.
async_register_light(d) ==
    /\ reg[d] = "scheduled"
    /\ lights' = registered(lights, d)
    /\ LockedAccess("register")
    /\ \E r \in subscribe_light(mqtt, mqtt_live) : reg' = [reg EXCEPT ![d] = r]
    /\ UNCHANGED <<jsession_id, inception_url, jbalancer_url, mqtt, http_closed,
                   chanVars, taskVars, downVars, histVars, flow, statusVars,
                   ct, cmdVars>>

\* await self._mqtt.subscribe(topic) of _subscribe_light returns, or raises
\* into async_setup_platform.
subscribe_light_done(d, outcome) ==
    /\ reg[d] \in {"subscribing", "subscribing_old"}
    /\ outcome \in SubscribeOutcomes(IF reg[d] = "subscribing"
                                     THEN mqtt_live ELSE orphan_live)
    /\ subs' = IF outcome = "ok" /\ reg[d] = "subscribing"
               THEN Subscribed(d) ELSE subs
    /\ reg' = [reg EXCEPT ![d] = IF outcome = "ok" THEN "done" ELSE "failed"]
    /\ UNCHANGED <<apiVars, mqtt_live, orphan_live, taskVars, downVars,
                   histVars, flow, sideVars>>

\* ------------------------------------------------------------------ shutdown
\* shutdown() up to its first await: with a client, the disconnect; without
\* one, straight to closing the HTTP session.
shutdown ==
    /\ shutdown_pc = "idle"
    /\ IF mqtt # "None"
       THEN /\ mqtt_live' = FALSE
            /\ shutdown_pc' = "disconnecting"
            /\ channel_closed' = mqtt_live
            /\ http_closed' = http_closed
       ELSE /\ mqtt_live' = mqtt_live
            /\ shutdown_pc' = "done"
            /\ channel_closed' = FALSE
            /\ http_closed' = TRUE
    /\ UNCHANGED <<jsession_id, inception_url, jbalancer_url, lights, mqtt,
                   orphan_live, subs, taskVars, reg, histVars, flow, sideVars>>

\* await self._mqtt.disconnect() returns; await self._http.close()
shutdown_http_close ==
    /\ shutdown_pc = "disconnecting"
    /\ http_closed' = TRUE
    /\ shutdown_pc' = "done"
    /\ channel_closed' = channel_closed
    /\ UNCHANGED <<jsession_id, inception_url, jbalancer_url, lights, mqtt,
                   chanVars, taskVars, reg, histVars, flow, sideVars>>

\* ------------------------------------------------------------ the environment
\* The connection of the client _mqtt holds goes down.
channel_drop ==
    /\ mqtt_live
    /\ mqtt_live' = FALSE
    /\ UNCHANGED <<apiVars, orphan_live, subs, taskVars, reg, downVars,
                   histVars, flow, sideVars>>

\* The connections of the clients _mqtt held before go down.
orphan_drop ==
    /\ orphan_live
    /\ orphan_live' = FALSE
    /\ UNCHANGED <<apiVars, mqtt_live, subs, taskVars, reg, downVars,
                   histVars, flow, sideVars>>

\* ------------------------------------- _async_send_updates, async_mqtt_publish
\* What leaves async_mqtt_publish when e is raised inside its try: the except
\* clause names mqtt.MqttError.
async_mqtt_publish_raised(e) == IF e = "MqttError" THEN "none" ELSE e

\* The exception classes raised on the publish path; all derive from Exception.
PublishFaults == {"AttributeError", "MqttError"}

\* What leaves _async_send_updates when e leaves async_mqtt_publish: the
\* except clause names Exception.
send_updates_raised_mqtt_only(e) == IF e = "MqttError" THEN "none" ELSE e

send_updates_raised(e) == IF e \in PublishFaults THEN "none" ELSE e

\* One call of async_mqtt_publish on a client calls client.publish once.
publish_issued_retried(n) == n + 2

publish_issued(n) == n + 1

\* What an awaited publish can end with on a connection that is up or down.
PublishOutcomes(up) == IF up THEN {"ok", "MqttError"} ELSE {"MqttError"}

\* A command of the entity of light d calls _async_send_updates, which calls
\* async_mqtt_publish.  With no client, self._mqtt.publish raises
\* AttributeError; on a client whose connection is down publish raises
\* MqttError at once; on a connection that is up the publish is awaited.
send_updates(d) ==
    /\ cmd_pc = "idle"
    /\ calls < MaxCommands
    /\ reg[d] \in {"done", "done_no_client"}
    /\ calls' = calls + 1
    /\ IF mqtt = "None"
       THEN /\ cmd_last' = "AttributeError"
            /\ cmd_exc' = send_updates_raised(async_mqtt_publish_raised("AttributeError"))
            /\ UNCHANGED <<cmd_pc, publishes>>
       ELSE /\ publishes' = publish_issued(publishes)
            /\ IF mqtt_live
               THEN /\ cmd_pc' = "publishing"
                    /\ UNCHANGED <<cmd_last, cmd_exc>>
               ELSE /\ cmd_last' = "MqttError"
                    /\ cmd_exc' = send_updates_raised(async_mqtt_publish_raised("MqttError"))
                    /\ UNCHANGED cmd_pc
    /\ UNCHANGED <<apiVars, chanVars, taskVars, reg, downVars, histVars, flow,
                   statusVars, ct, lockVars>>

\* await self._mqtt.publish(...) returns or raises; the call returns.
publish_done(outcome) ==
    /\ cmd_pc \in {"publishing", "publishing_old"}
    /\ outcome \in PublishOutcomes(IF cmd_pc = "publishing"
                                   THEN mqtt_live ELSE orphan_live)
    /\ cmd_pc' = "idle"
    /\ cmd_last' = outcome
    /\ cmd_exc' = IF outcome = "ok" THEN "none"
                  ELSE send_updates_raised(async_mqtt_publish_raised(outcome))
    /\ UNCHANGED <<apiVars, chanVars, taskVars, reg, downVars, histVars, flow,
                   statusVars, ct, calls, publishes, lockVars>>

\* ------------------------------------------------------------ update_bulb
\* The for loop of update_bulb over the entries left, packet being the dict
\* built so far: the packet when the loop ends, or the exception that ends
\* it.  A falsy entry is skipped; subscripting a number or a string raises
\* TypeError, a missing member of an object KeyError.
RECURSIVE packet_of_first_wins(_, _)
packet_of_first_wins(items, packet) ==
    IF items = <<>> THEN [raised |-> "none", packet |-> packet]
    ELSE LET item == Head(items)
         IN IF item.shape = "falsy" THEN packet_of_first_wins(Tail(items), packet)
            ELSE IF item.shape = "scalar" THEN [raised |-> "TypeError", packet |-> packet]
            ELSE IF item.value = Missing \/ item.type = Missing
            THEN [raised |-> "KeyError", packet |-> packet]
            ELSE packet_of_first_wins(Tail(items),
                     IF packet[item.type] = Absent
                     THEN [packet EXCEPT ![item.type] = item.value]
                     ELSE packet)

RECURSIVE packet_of(_, _)
packet_of(items, packet) ==
    IF items = <<>> THEN [raised |-> "none", packet |-> packet]
    ELSE LET item == Head(items)
         IN IF item.shape = "falsy" THEN packet_of(Tail(items), packet)
            ELSE IF item.shape = "scalar" THEN [raised |-> "TypeError", packet |-> packet]
            ELSE IF item.value = Missing \/ item.type = Missing
            THEN [raised |-> "KeyError", packet |-> packet]
            ELSE packet_of(Tail(items), [packet EXCEPT ![item.type] = item.value])

\* dict.update: the keys of the packet are written over those of _data.
dict_update(d, packet) ==
    [k \in Keys |-> IF packet[k] # Absent THEN packet[k] ELSE d[k]]

\* update_bulb(payload) on a light whose _data is d: _data after it, the
\* exception that leaves it, and the warnings it logs.  KeyError and
\* ValueError are caught, with one warning, before _data is touched.
update_bulb(d, payload) ==
    LET built == packet_of(payload, [k \in Keys |-> Absent])
    IN IF built.raised = "none"
       THEN [data |-> dict_update(d, built.packet), raised |-> "none", logged |-> 0]
       ELSE IF built.raised \in {"KeyError", "ValueError"}
       THEN [data |-> d, raised |-> "none", logged |-> 1]
       ELSE [data |-> d, raised |-> built.raised, logged |-> 0]

\* ---------------------------------------------------------- _handle_status
\* self._lights.get(light_id) finds a light: the identifier is a key of the
\* registry.
lights_get_any(ls, dev) == TRUE

lights_get(ls, dev) == \E i \in 1..Len(ls) : ls[i] = dev

\* _handle_status(msg) with the registry ls and the lights' _data all:
\* json.loads raises UnicodeDecodeError on bytes that are not UTF-8 and
\* JSONDecodeError, which alone is caught, on text that is not JSON.
handle_status(ls, m, all) ==
    IF ~lights_get(ls, m.dev)
    THEN [data |-> all, raised |-> "none", logged |-> 1]
    ELSE IF m.body.kind = "not_utf8"
    THEN [data |-> all, raised |-> "UnicodeDecodeError", logged |-> 0]
    ELSE IF m.body.kind = "not_json"
    THEN [data |-> all, raised |-> "none", logged |-> 1]
    ELSE IF m.body.kind = "not_list"
    THEN [data |-> all, raised |-> "none", logged |-> 1]
    ELSE LET out == update_bulb(all[m.dev], m.body.items)
         IN [data |-> [all EXCEPT ![m.dev] = out.data],
             raised |-> out.raised, logged |-> out.logged]

\* ------------------------------------------------ _message_loop, a message
\* The client queues a message that came in on the connection.
message_arrives(m) ==
    /\ pc = "messages"
    /\ mqtt_live
    /\ msg.at = "none"
    /\ msg' = m
    /\ warnings' = 0
    /\ UNCHANGED <<apiVars, chanVars, taskVars, reg, downVars, histVars, flow,
                   data, ct, cmdVars, lockVars>>

\* async for message in messages: one turn of the loop.  A status message is
\* handled, an update message passed over, any other logged and dropped.  An
\* exception that leaves _handle_status leaves _message_loop, and async_start
\* too unless it is an MqttError.
message_loop_next ==
    /\ pc = "messages"
    /\ msg.at = "queued"
    /\ LET out == IF msg.topic = "status" THEN handle_status(lights, msg, data)
                  ELSE IF msg.topic = "update"
                  THEN [data |-> data, raised |-> "none", logged |-> 0]
                  ELSE [data |-> data, raised |-> "none", logged |-> 1]
       IN /\ data' = out.data
          /\ warnings' = out.logged
          /\ IF out.raised = "none" THEN Await("messages") ELSE Raise(out.raised)
    /\ IF msg.topic = "status" THEN LockedAccess("lookup") ELSE UNCHANGED lockVars
    /\ msg' = NoMessage
    /\ UNCHANGED <<apiVars, chanVars, attempt, pending, reg, downVars, histVars,
                   flow, ct, cmdVars>>

\* --------------------------------------------------- colour temperature
\* str(n) as its decimal digits, and int(s) of such a string.
RECURSIVE str(_)
str(n) == IF n < 10 THEN <<n>> ELSE Append(str(n \div 10), n % 10)

RECURSIVE int(_)
int(s) == IF s = <<>> THEN 0 ELSE 10 * int(SubSeq(s, 1, Len(s) - 1)) + s[Len(s)]

\* math.ceil(a / b) for a >= 0 and b > 0.
ceil(a, b) == (a + b - 1) \div b

\* _encode_color_temp: str(math.ceil((max - value) / (max - min) * 100))
encode_color_temp(value_mireds, min_mireds, max_mireds) ==
    str(ceil((max_mireds - value_mireds) * 100, max_mireds - min_mireds))

\* _decode_color_temp: math.ceil(max - (int(value_pct) / 100.0) * (max - min))
decode_color_temp_floor(value_pct, min_mireds, max_mireds) ==
    (max_mireds * 100 - int(value_pct) * (max_mireds - min_mireds)) \div 100

decode_color_temp(value_pct, min_mireds, max_mireds) ==
    ceil(max_mireds * 100 - int(value_pct) * (max_mireds - min_mireds), 100)

\* set_temperature(temp_mireds): the value sent for colorTemperature.
set_temperature(temp_mireds) ==
    /\ ct.pc = "idle"
    /\ ct' = [pc |-> "set", mireds |-> temp_mireds,
              value |-> encode_color_temp(temp_mireds, MinMireds, MaxMireds),
              color_temp |-> 0]
    /\ UNCHANGED <<apiVars, chanVars, taskVars, reg, downVars, histVars, flow,
                   statusVars, cmdVars, lockVars>>

\* color_temp, once that value is the colorTemperature of _data.
color_temp ==
    /\ ct.pc = "set"
    /\ ct' = [ct EXCEPT !.pc = "read",
                        !.color_temp = decode_color_temp(ct.value, MinMireds, MaxMireds)]
    /\ UNCHANGED <<apiVars, chanVars, taskVars, reg, downVars, histVars, flow,
                   statusVars, cmdVars, lockVars>>

Next ==
    \/ \E resp \in LoginResponses : async_start_login(resp)
    \/ \E resp \in InfoResponses : async_get_server_info(resp)
    \/ \E resp \in DiscoveryResponses : async_discover_lights(resp)
    \/ \E o \in ConnectOutcomes : async_setup_mqtt_connect(o)
    \/ async_setup_mqtt_backoff
    \/ \E o \in {"ok", "MqttError"} : async_setup_mqtt_subscribe(o)
    \/ message_loop_fault
    \/ \E resp \in LoginResponses : async_start_relogin(resp)
    \/ async_start_sleep
    \/ \E d \in Devices : async_register_light(d)
    \/ \E d \in Devices, o \in {"ok", "MqttError"} : subscribe_light_done(d, o)
    \/ shutdown
    \/ shutdown_http_close
    \/ channel_drop
    \/ orphan_drop

Spec == Init /\ [][Next]_vars

\* The config flow alone: credentials are verified before any API is started.
NextAuth ==
    \/ \E resp \in LoginResponses : async_step_user(resp)
    \/ async_step_user_form

SpecAuth == Init /\ [][NextAuth]_vars

\* The message loop on its first connection: every POST of the startup is
\* answered well, the platform setups that run do so before the broker
\* accepts the connect, the subscribes are acknowledged, and status, update
\* and other messages come in.
GoodLogin == [fault |-> "none", status |-> HTTP_OK, ret |-> 0, jsessionId |-> 1]
GoodInfo == [fault |-> "none", status |-> HTTP_OK, data |-> "wss://inception"]
GoodDiscovery == [fault |-> "none", status |-> HTTP_OK, data |-> Devices]

NextStatus ==
    \/ async_start_login(GoodLogin)
    \/ async_get_server_info(GoodInfo)
    \/ async_discover_lights(GoodDiscovery)
    \/ \E d \in Devices : pc = "connect" /\ async_register_light(d)
    \/ async_setup_mqtt_connect("ok")
    \/ async_setup_mqtt_subscribe("ok")
    \/ \E m \in Messages : message_arrives(m)
    \/ message_loop_next

SpecStatus == Init /\ [][NextStatus]_vars

\* Commands given to the lights while the supervisor starts, loses its
\* connection and reconnects: every POST of the startup is answered well and
\* the broker accepts every connect.
NextPublish ==
    \/ async_start_login(GoodLogin)
    \/ async_get_server_info(GoodInfo)
    \/ async_discover_lights(GoodDiscovery)
    \/ \E d \in Devices : async_register_light(d)
    \/ \E d \in Devices, o \in {"ok", "MqttError"} : subscribe_light_done(d, o)
    \/ async_setup_mqtt_connect("ok")
    \/ async_setup_mqtt_subscribe("ok")
    \/ message_loop_fault
    \/ async_start_sleep
    \/ channel_drop
    \/ \E d \in Devices : send_updates(d)
    \/ \E o \in {"ok", "MqttError"} : publish_done(o)

SpecPublish == Init /\ [][NextPublish]_vars

\* The three sections of the registry lock interleaved: platform setups at
\* any time, connects and reconnects, and status messages that switch a
\* light on.
SwitchedOn ==
    [at : {"queued"}, topic : {"status"}, dev : Devices,
     body : {[kind |-> "list",
              items |-> <<[shape |-> "object", type |-> "switch", value |-> "1"]>>]}]

NextLock ==
    \/ async_start_login(GoodLogin)
    \/ async_get_server_info(GoodInfo)
    \/ async_discover_lights(GoodDiscovery)
    \/ \E d \in Devices : async_register_light(d)
    \/ \E d \in Devices, o \in {"ok", "MqttError"} : subscribe_light_done(d, o)
    \/ async_setup_mqtt_connect("ok")
    \/ \E o \in {"ok", "MqttError"} : async_setup_mqtt_subscribe(o)
    \/ \E m \in SwitchedOn : message_arrives(m)
    \/ message_loop_next
    \/ message_loop_fault
    \/ async_start_sleep
    \/ channel_drop

SpecLock == Init /\ [][NextLock]_vars

\* Registrations around a lost connection: every POST of the startup is
\* answered well, the broker accepts every connect, and a subscribe of a
\* registration that is awaited is acknowledged, so that a registration
\* fails only when a client whose connection is down refuses its subscribe.
NextStale ==
    \/ async_start_login(GoodLogin)
    \/ async_get_server_info(GoodInfo)
    \/ async_discover_lights(GoodDiscovery)
    \/ \E d \in Devices : async_register_light(d)
    \/ \E d \in Devices : subscribe_light_done(d, "ok")
    \/ async_setup_mqtt_connect("ok")
    \/ \E o \in {"ok", "MqttError"} : async_setup_mqtt_subscribe(o)
    \/ message_loop_fault
    \/ async_start_sleep
    \/ channel_drop

SpecStale == Init /\ [][NextStale]_vars

\* Recovery once the servers behave: every login is accepted, the broker
\* refuses a connect only until the supervisor has logged in again and
\* acknowledges every subscribe sent on a connection that is up, and a
\* connection is lost only under the message loop.  The event loop resumes
\* every task whose await has ended.
SupervisorStep ==
    \/ async_start_login(GoodLogin)
    \/ async_get_server_info(GoodInfo)
    \/ async_discover_lights(GoodDiscovery)
    \/ async_setup_mqtt_connect("ok")
    \/ escaped # "MqttConnectError" /\ async_setup_mqtt_connect("MqttConnectError")
    \/ async_setup_mqtt_backoff
    \/ async_setup_mqtt_subscribe("ok")
    \/ message_loop_fault
    \/ async_start_relogin(GoodLogin)
    \/ async_start_sleep

SubscribeStep ==
    \E d \in Devices :
        \/ subscribe_light_done(d, "ok")
        \/ /\ ~(IF reg[d] = "subscribing" THEN mqtt_live ELSE orphan_live)
           /\ subscribe_light_done(d, "MqttError")

NextRecover ==
    \/ SupervisorStep
    \/ SubscribeStep
    \/ \E d \in Devices : async_register_light(d)
    \/ pc = "messages" /\ channel_drop

SpecRecover ==
    Init /\ [][NextRecover]_vars /\ WF_vars(SupervisorStep) /\ WF_vars(SubscribeStep)

\* A colour temperature of the range of the bulb, set and read back.
NextColor ==
    \/ \E v \in MinMireds..MaxMireds : set_temperature(v)
    \/ color_temp

SpecColor == Init /\ [][NextColor]_vars

\* The supervisor and the platform setups while the integration stays loaded
\* (shutdown is not called).  The event loop resumes a task whose await has
\* ended: the message iterator of a connection that is down raises, and
\* asyncio.sleep(10) returns.
NextLive ==
    \/ \E resp \in LoginResponses : async_start_login(resp)
    \/ \E resp \in InfoResponses : async_get_server_info(resp)
    \/ \E resp \in DiscoveryResponses : async_discover_lights(resp)
    \/ \E o \in ConnectOutcomes : async_setup_mqtt_connect(o)
    \/ async_setup_mqtt_backoff
    \/ \E o \in {"ok", "MqttError"} : async_setup_mqtt_subscribe(o)
    \/ message_loop_fault
    \/ \E resp \in LoginResponses : async_start_relogin(resp)
    \/ async_start_sleep
    \/ \E d \in Devices : async_register_light(d)
    \/ \E d \in Devices, o \in {"ok", "MqttError"} : subscribe_light_done(d, o)
    \/ channel_drop
    \/ orphan_drop

SpecLive ==
    Init /\ [][NextLive]_vars
         /\ WF_vars(message_loop_fault) /\ WF_vars(async_start_sleep)

\* ------------------------------------------------------------- properties
\* C1: for every response to the login POST, _async_login returns and stores
\* the response's jsessionId exactly when the HTTP status is 200 and ret is 0;
\* for a non-200 status or a non-zero ret it raises AuthError and stores
\* nothing.
C1_LoginSucceedsIffOkAndRetZero ==
    (flow.submits > 0 /\ flow.resp.fault = "none") =>
        LET good == flow.resp.status = 200 /\ flow.resp.ret = 0
        IN /\ (flow.raised = "none" /\ flow.token = flow.resp.jsessionId) <=> good
           /\ ~good => (flow.raised = "AuthError" /\ flow.token = None)

C1_Witness_Accepted ==
    /\ flow.submits > 0
    /\ flow.resp.fault = "none" /\ flow.resp.status = 200 /\ flow.resp.ret = 0
    /\ flow.raised = "none"
    /\ flow.token = flow.resp.jsessionId
    /\ flow.result = "entry"

\* C2: every transport fault of the login POST, a timeout as well as a
\* connection error, ends _async_login with AuthError, and nothing but
\* AuthError reaches the caller of check_auth.
C2_OnlyAuthErrorReachesCaller ==
    /\ flow.resp.fault \in TransportFaults => flow.raised = "AuthError"
    /\ flow.raised \in {"none", "AuthError"}

\* C3: once the loop of async_start is entered and no shutdown is asked for,
\* no exception leaves async_start (stated for the runs in which the broker
\* address was resolved; the others are the case of C5).
C3_NoFaultLeavesTheLoop ==
    (loop_entered /\ inception_url # NoUrl /\ shutdown_pc = "idle") => pc # "raised"

\* C4: once shutdown() has disconnected the connection and closed the HTTP
\* session, async_start starts no login and no connect, and no connection
\* comes up.
C4_ShutdownIsTerminal ==
    [][(shutdown_pc = "done" /\ channel_closed) =>
          /\ ~(pc' \in {"login", "relogin", "connect"} /\ pc' # pc)
          /\ ~(mqtt_live' /\ ~mqtt_live)]_vars

\* C5: when the server info call left the broker address absent, the loop of
\* async_start is still entered and, with no shutdown asked for, async_start
\* is not ended by an exception.
C5_AbsentEndpointsDoNotAbort ==
    (loop_entered /\ inception_url = NoUrl /\ shutdown_pc = "idle") => pc # "raised"

\* C6: one call of _async_setup_mqtt starts at most 3 connects, and when the
\* third has failed too the failure has left the call: it is caught by the
\* outer loop of async_start, and neither a sleep nor a connect of that call
\* is awaited.
C6_AtMostThreeAttempts ==
    /\ phase_opens <= 3
    /\ (phase_opens = 3 /\ pc # "connect" /\ last_open # "ok") =>
          (escaped = last_open /\ pc \in {handler(last_open), "raised"})

C6_Witness_ThirdAttemptFailed ==
    /\ phase_opens = 3
    /\ attempt = 2
    /\ last_open = "MqttConnectError"
    /\ pc = "relogin"

\* C7 as claimed: when three connects in a row were refused in one call of
\* _async_setup_mqtt, delays of 1s, 2s and 4s were slept, in that order,
\* before the failure is raised.
C7_Original_DelaysOneTwoFour ==
    (phase_opens = 3 /\ last_open = "MqttConnectError" /\ pc = "relogin") =>
        phase_sleeps = <<1, 2, 4>>

\* C7 as amended: when three connects in a row were refused in one call of
\* _async_setup_mqtt, delays of 1s and 2s were slept, in that order, one after
\* each of the first two refusals; the third refusal is raised at once.
C7_DelaysOneTwo ==
    (phase_opens = 3 /\ last_open = "MqttConnectError" /\ pc = "relogin") =>
        phase_sleeps = <<1, 2>>

C7_Witness_Escalated ==
    /\ pc = "relogin"
    /\ escaped = "MqttConnectError"
    /\ phase_opens = 3
    /\ phase_sleeps = <<1, 2>>

\* C8: when the fault async_start caught last is of the connection-refused
\* class, every connect started after it comes after a login that was
\* answered since, and its client is built with the token of that login.
C8_ReloginBeforeReconnect ==
    (pc = "connect" /\ escaped = "MqttConnectError") =>
        (relogin_token # None /\ open_token = relogin_token)

C8_Witness_ReconnectedAfterRelogin ==
    /\ pc = "connect"
    /\ escaped = "MqttConnectError"
    /\ opened
    /\ relogin_token # None
    /\ open_token = relogin_token
    /\ token_at_escape # relogin_token

\* C9: when the fault async_start caught last is a channel fault of another
\* class, every connect started after it comes after a wait of 10s and after
\* no login, with the session token and the broker address as they were when
\* the fault was caught.
C9_FixedDelayNoRelogin ==
    (pc = "connect" /\ escaped = "MqttError") =>
        /\ fixed_wait = 10
        /\ relogin_token = None
        /\ open_token = token_at_escape
        /\ jsession_id = token_at_escape
        /\ inception_url = url_at_escape

C9_Witness_ReconnectedAfterDrop ==
    /\ pc = "connect"
    /\ escaped = "MqttError"
    /\ opened
    /\ fixed_wait = 10
    /\ relogin_token = None
    /\ open_token = token_at_escape

\* C10: whenever the message loop runs, every light of the snapshot taken
\* when its client was connected has had its topic subscribed on that client.
C10_SnapshotSubscribedBeforeLoop ==
    pc = "messages" => \A i \in 1..Len(snapshot) : subs[snapshot[i]] >= 1

C10_Witness_TwoLightsReplayed ==
    /\ pc = "messages"
    /\ Len(snapshot) = 2
    /\ \A i \in 1..Len(snapshot) : subs[snapshot[i]] >= 1

\* C11: a device that async_register_light wrote while _mqtt held no client
\* has had its topic subscribed exactly once on the client in use whenever the
\* message loop runs: once by the replay of the snapshot, never by its own
\* registration.
C11_EarlyLightSubscribedOnce ==
    \A d \in Devices :
        (pc = "messages" /\ reg[d] = "done_no_client") => subs[d] = 1

C11_Witness_EarlyLightInLoop ==
    /\ pc = "messages"
    /\ mqtt_live
    /\ \E d \in Devices : reg[d] = "done_no_client" /\ subs[d] = 1
    /\ \E d \in Devices : reg[d] = "done"

\* C12: a device once in the registry stays in it, in its place, through every
\* step, and when the connection goes down under the message loop async_start
\* comes to start a new connect, by its MqttError handler.
C12_RegistryKeepsDevices ==
    /\ [][\A i \in 1..Len(lights) : Len(lights') >= i /\ lights'[i] = lights[i]]_vars
    /\ (pc = "messages" /\ ~mqtt_live) ~> (pc = "connect" /\ escaped = "MqttError")

C12_Witness_ReconnectingWithRegistry ==
    /\ pc = "connect"
    /\ escaped = "MqttError"
    /\ fixed_wait = ReconnectDelay
    /\ Len(lights) = NumDevices
    /\ mqtt = "Client"
    /\ ~mqtt_live

\* C19: at most one connection is up at any time: when the client _mqtt holds
\* is connected, no client it held before still is.
C19_AtMostOneLiveChannel == ~(mqtt_live /\ orphan_live)

\* C20: after the login of the MqttConnectError handler async_start resolves
\* the endpoints again: it does not go from that login straight to a connect.
C20_EndpointsResolvedAfterRelogin ==
    [][pc = "relogin" => pc' \in {"relogin", "server_info", "raised"}]_vars

\* C16 as claimed: a colour temperature of [154, 400] encoded and decoded
\* again differs from the one set by at most 1.
C16_Original_RoundTripWithinOne ==
    ct.pc = "read" =>
        (ct.color_temp - ct.mireds <= 1 /\ ct.mireds - ct.color_temp <= 1)

\* C16 as amended: a colour temperature of [154, 400] encoded and decoded
\* again differs from the one set by at most 2.
C16_RoundTripWithinTwo ==
    ct.pc = "read" =>
        (ct.color_temp - ct.mireds <= 2 /\ ct.mireds - ct.color_temp <= 2)

C16_Witness_OffByTwo ==
    /\ ct.pc = "read"
    /\ ct.mireds = 395
    /\ ct.value = <<3>>
    /\ ct.color_temp = 393

\* A turn of the message loop on a status message for a light of the registry.
StatusHandled ==
    /\ msg.at = "queued" /\ msg'.at = "none"
    /\ msg.topic = "status"
    /\ \E i \in 1..Len(lights) : lights[i] = msg.dev

\* An entry with both its members.
WellFormed(item) ==
    item.shape = "object" /\ item.type # Missing /\ item.value # Missing

\* C13: handling a status message for a registered light whose payload is not
\* a list, or is a list with an entry missing its type or its value, leaves
\* the _data of every light as it was, whatever well-formed entries precede
\* the bad one, and logs exactly one warning.
C13_MalformedLeavesStateOneWarning ==
    [][(/\ StatusHandled
        /\ \/ msg.body.kind = "not_list"
           \/ /\ msg.body.kind = "list"
              /\ \E i \in 1..Len(msg.body.items) : ~WellFormed(msg.body.items[i]))
       => (data' = data /\ warnings' = 1)]_vars

\* C14: handling a status message whose body cannot be decoded, is not a
\* list, or is a list with an entry that is not a well-formed record, leaves
\* async_start in the message loop and the connection as it was.
C14_MalformedNeverEscalates ==
    [][(/\ StatusHandled
        /\ \/ msg.body.kind # "list"
           \/ \E i \in 1..Len(msg.body.items) : ~WellFormed(msg.body.items[i]))
       => (pc' = "messages" /\ exc' = "none" /\ mqtt' = mqtt /\ mqtt_live' = mqtt_live)]_vars

\* The state d with each key of the batch overwritten by the value of the
\* last entry of the batch that names it.
Overwritten(d, items) ==
    [k \in Keys |->
        IF \E i \in 1..Len(items) : items[i].type = k
        THEN LET last == CHOOSE i \in 1..Len(items) :
                             /\ items[i].type = k
                             /\ \A j \in (i + 1)..Len(items) : items[j].type # k
             IN items[last].value
        ELSE d[k]]

\* C15: handling a status message for a registered light whose payload is a
\* list of well-formed entries leaves the light's _data as it was with each
\* key of the batch overwritten, the last entry winning for a repeated key,
\* and the _data of the other lights untouched; applying the batch again to
\* the result changes nothing.
C15_BatchOverwritesKeys ==
    [][(/\ StatusHandled
        /\ msg.body.kind = "list"
        /\ \A i \in 1..Len(msg.body.items) : WellFormed(msg.body.items[i]))
       => /\ data' = [data EXCEPT ![msg.dev] = Overwritten(data[msg.dev], msg.body.items)]
          /\ update_bulb(data'[msg.dev], msg.body.items).data = data'[msg.dev]
          /\ warnings' = 0]_vars

C15_Witness_KeyAddedAndOverwritten ==
    /\ pc = "messages"
    /\ msg.at = "none"
    /\ warnings = 0
    /\ \E d \in Devices :
          /\ \E i \in 1..Len(lights) : lights[i] = d
          /\ data[d]["switch"] = "1"
          /\ data[d]["brightness"] = "1"

\* A step of a command: _async_send_updates is called, or its publish ends.
CommandStep == calls' # calls \/ (cmd_pc # "idle" /\ cmd_pc' = "idle")

\* C17: no exception leaves _async_send_updates, whether _mqtt holds no
\* client, a client whose connection is up or one whose connection is down,
\* and a step of a command changes neither the API object, the connections,
\* the task running async_start nor the registrations.
C17_PublishFaultStaysInside ==
    /\ [](cmd_exc = "none")
    /\ [][CommandStep => UNCHANGED <<apiVars, chanVars, taskVars, reg, downVars>>]_vars

C17_Witness_FaultsWithAndWithoutClient ==
    /\ cmd_pc = "idle"
    /\ cmd_last = "MqttError"
    /\ cmd_exc = "none"
    /\ mqtt = "Client" /\ ~mqtt_live
    /\ calls >= 2 /\ publishes = calls - 1

\* C18: client.publish is called at most once per call of
\* _async_send_updates and only inside that call: no other step, a reconnect
\* included, publishes anything.
C18_AtMostOncePerCall ==
    /\ [](publishes <= calls)
    /\ [][publishes' # publishes
          => (calls' = calls + 1 /\ publishes' = publishes + 1)]_vars

C18_Witness_NotResentAfterConnect ==
    /\ pc = "messages" /\ mqtt_live
    /\ cmd_pc = "idle"
    /\ cmd_last = "AttributeError"
    /\ calls >= 1 /\ publishes = 0

\* C21: a turn of the message loop on a message of an update topic, of any
\* other topic, or of a status topic whose device is not in the registry
\* leaves the _data of every light and the registry as they were, and leaves
\* async_start in the message loop.
C21_ForeignMessageChangesNothing ==
    [][(/\ msg.at = "queued" /\ msg'.at = "none"
        /\ \/ msg.topic \in {"update", "other"}
           \/ ~\E i \in 1..Len(lights) : lights[i] = msg.dev)
       => (data' = data /\ lights' = lights /\ pc' = "messages" /\ exc' = "none")]_vars

C21_Witness_DroppedWithEmptyRegistry ==
    /\ pc = "messages"
    /\ msg.at = "none"
    /\ warnings = 1
    /\ lights = <<>>
    /\ data = [d \in Devices |-> Discovered]

\* C22: _lights is read and written only by a section that holds
\* _lights_mutex, and no task is suspended while it holds the lock: at every
\* await the lock is free, so no section ever finds it held.
C22_RegistryLockDiscipline ==
    lights_mutex = "free" /\ ~unlocked

C22_Witness_InsertSnapshotLookup ==
    /\ pc = "messages"
    /\ msg.at = "none"
    /\ snapshot # <<>>
    /\ \E d \in Devices :
          /\ reg[d] = "done"
          /\ \E i \in 1..Len(lights) : lights[i] = d
          /\ data[d]["switch"] = "1"

\* C23: whenever _async_setup_mqtt has returned and async_start is in the
\* message loop, every light whose async_register_light call has returned
\* has had its topic subscribed at least once on the client _mqtt holds,
\* whatever the order in which the registrations and the setups ran.
C23_RegisteredMeansSubscribed ==
    \A d \in Devices :
        (pc = "messages" /\ reg[d] \in {"done", "done_no_client"}) => subs[d] >= 1

C23_Witness_ReplayedAndSelfSubscribed ==
    /\ pc = "messages"
    /\ \E d \in Devices :
          /\ reg[d] = "done"
          /\ ~\E i \in 1..Len(snapshot) : snapshot[i] = d
          /\ subs[d] = 1
    /\ \E e \in Devices :
          /\ reg[e] \in {"done", "done_no_client"}
          /\ \E i \in 1..Len(snapshot) : snapshot[i] = e
          /\ subs[e] = 1

\* C24: a call of async_register_light made while _mqtt holds a client whose
\* connection is down writes the light to _lights in the step that attempts
\* its subscribe; a light whose registration failed stays in _lights, is in
\* the snapshot of the next connect that succeeds, and has been subscribed on
\* the new client when the message loop runs on it.
C24_StaleRegistrationReplayed ==
    /\ [][\A d \in Devices :
            (reg[d] = "scheduled" /\ reg'[d] # "scheduled"
                /\ mqtt = "Client" /\ ~mqtt_live)
            => /\ \E i \in 1..Len(lights') : lights'[i] = d
               /\ reg'[d] \in {"subscribing", "failed"}
               /\ subs' = subs]_vars
    /\ [](\A d \in Devices :
            reg[d] = "failed" => \E i \in 1..Len(lights) : lights[i] = d)
    /\ [][(pc = "connect" /\ pc' \in {"subscribe", "messages"})
          => \A d \in Devices :
                reg[d] = "failed" => \E i \in 1..Len(snapshot') : snapshot'[i] = d]_vars
    /\ [](\A d \in Devices :
            (/\ pc = "messages"
             /\ reg[d] = "failed"
             /\ \E i \in 1..Len(snapshot) : snapshot[i] = d)
            => subs[d] >= 1)

C24_Witness_RefusedThenReplayed ==
    /\ pc = "messages" /\ mqtt_live
    /\ \E d \in Devices :
          /\ reg[d] = "failed"
          /\ \E i \in 1..Len(snapshot) : snapshot[i] = d
          /\ subs[d] = 1

\* C25: a plain MqttError raised by connect or by a subscribe of the replay
\* leaves _async_setup_mqtt in that step: the loop variable is not advanced,
\* no backoff delay is slept, and async_start is in the 10s sleep of its
\* MqttError handler with the session token untouched; from that sleep it
\* goes straight to the connect of a new setup, with no login in between.
C25_PlainFaultNotRetried ==
    /\ [][(\/ pc = "connect" /\ pc' # "connect" /\ last_open' = "MqttError"
           \/ pc = "subscribe" /\ pc' \notin {"subscribe", "messages"})
          => /\ pc' = "sleep"
             /\ escaped' = "MqttError"
             /\ attempt' = attempt
             /\ phase_sleeps' = phase_sleeps
             /\ phase_opens' = phase_opens
             /\ jsession_id' = jsession_id]_vars
    /\ [][(pc = "sleep" /\ pc' # "sleep")
          => /\ pc' = "connect"
             /\ fixed_wait' = ReconnectDelay
             /\ phase_sleeps' = <<>>
             /\ relogin_token' = None
             /\ jsession_id' = jsession_id]_vars

C25_Witness_FirstOpenFailedPlainly ==
    /\ pc = "sleep"
    /\ escaped = "MqttError"
    /\ last_open = "MqttError"
    /\ phase_opens = 1
    /\ phase_sleeps = <<>>
    /\ fixed_wait = 0

\* C26: once async_start has caught a channel fault, or the connection under
\* the message loop is down, async_start is eventually in the message loop
\* again on a connection that is up, with the topic of every light of the
\* registry subscribed on the client _mqtt holds.
C26_RecoversWithAllSubscribed ==
    (escaped # "none" \/ (pc = "messages" /\ ~mqtt_live))
        ~> (/\ pc = "messages"
            /\ mqtt_live
            /\ \A i \in 1..Len(lights) : subs[lights[i]] >= 1)

C26_Witness_BackInLoopAfterFault ==
    /\ pc = "messages" /\ mqtt_live
    /\ Len(lights) = NumDevices
    /\ \A i \in 1..Len(lights) : subs[lights[i]] >= 1
    /\ \E d \in Devices : reg[d] = "failed"
    /\ \E d \in Devices : reg[d] = "done"

====
